---- MODULE Spec2Model ----
(***************************************************************************)
(* screen-genie: the AI-session lifecycle (useAISession), the two query    *)
(* orchestrators (ChatPage.handleUserQuery in the main window and          *)
(* PIPApp.handleUserQuery / handleStreamingResponse in the floating        *)
(* window), the conversation store and the floating window's shadow copy,  *)
(* the opening and closing of the floating window (useReactPIP) and the    *)
(* automatic open and close on blur and focus (useWindowFocus).            *)
(*                                                                         *)
(* JavaScript is single threaded: an async function runs to its next       *)
(* await, and the continuation of a settled promise runs as a microtask    *)
(* before any timer, host event or user event.  A process whose            *)
(* continuation is pending is "ready"; every host, timer and user action   *)
(* is guarded by NoMicrotask.                                              *)
(***************************************************************************)
EXTENDS Integers, Sequences, FiniteSets, TLC

\* ------------------------------------------------------------------ bounds
MaxMain     == 2   \* handleUserQuery activations of the main window in flight at once
MaxQueries  == 2   \* queries accepted in one run
MaxChunks   == 1   \* chunks one streamed completion delivers
MaxAttempts == 3   \* createSession attempts the free callers of SpecSession start
MaxToggles  == 2   \* handleScreenToggle clicks in one run
MaxClears   == 1   \* clear-conversation clicks in one run
MaxOpens    == 1   \* floating-window opens in one run
MaxChatLen  == 4   \* length of the message list of ChatProvider
MaxTicks    == 11  \* steps of the clock of useWindowFocus
MaxQueryTicks == 5 \* steps of that clock while a query is followed
MaxCalls   == 2    \* openPIPWindow calls when the button is pressed again

\* ------------------------------------------------------- program constants
InitialId == 1      \* id of the initial system message
HistoryLen == 8     \* messages kept by buildCleanConversationContext

Windows   == {"main", "pip"}
MainProcs == 1..MaxMain
PipProc   == MaxMain + 1
Procs     == 1..(MaxMain + 1)
win(p)    == IF p \in MainProcs THEN "main" ELSE "pip"

Throw == -1         \* a hook call that rejected
Null  == 0          \* the null handle / an empty ref

VARIABLES
  hostDefined,      \* typeof window.LanguageModel !== "undefined"
  aiReady,          \* useChromeAI().isReady as rendered in ChatPage
  sessionRef,       \* useAISession: sessionRef.current per window
  isCreatingRef,    \* useAISession: isCreatingRef.current per window
  sessions,         \* every createSession attempt / host session, in order
  call,             \* per process: the useAISession call it is inside
  pc,               \* per process: position in its handler
  loc,              \* per process: the handler's local variables
  messages,         \* SharedChatProvider.messages (authoritative)
  isThinking,       \* SharedChatProvider.isThinking
  loadingStage,     \* SharedChatProvider.loadingStage
  hasScreenAccess,  \* ScreenProvider.hasScreenAccess
  streamRef,        \* useScreenCapture.streamRef (index into tracks, 0 = null)
  tracks,           \* readyState of the track of every stream ever granted
  pip,              \* the floating window: useReactPIP state and PIPApp props and refs
  localMessages,    \* PIPApp.localMessages (shadow copy)
  localIsThinking,  \* PIPApp.localIsThinking
  localLoadingStage,\* PIPApp.localLoadingStage
  screenReq,        \* handleScreenToggle awaiting requestScreenAccess
  now,              \* the last value Date.now() returned
  elapsed,          \* a timer, host or user event came since that read
  nq,               \* number of accepted queries / free calls
  nToggles,         \* number of handleScreenToggle clicks
  nClears,          \* number of clear-conversation clicks
  nOpens,           \* number of floating-window opens
  chatMessages,     \* ChatProvider (ChatContext.tsx): messages
  atClear,          \* number of create() calls made when the conversation was last cleared
  focus             \* useWindowFocus: its refs and timers, the window's focus, the time

vars == <<hostDefined, aiReady, sessionRef, isCreatingRef, sessions, call, pc,
          loc, messages, isThinking, loadingStage, hasScreenAccess, streamRef,
          tracks, pip, localMessages, localIsThinking, localLoadingStage,
          screenReq, now, elapsed, nq, nToggles, nClears, nOpens, chatMessages,
          atClear, focus>>

hookVars  == <<sessionRef, isCreatingRef, sessions, call>>
storeVars == <<messages, isThinking, loadingStage>>
screenVars == <<hasScreenAccess, streamRef, tracks, screenReq>>
pipVars   == <<pip, localMessages, localIsThinking, localLoadingStage>>
countVars == <<nq, nToggles, nClears, nOpens>>
\* what no handler of ChatPage, PIPApp or useAISession writes
envVars   == <<hostDefined, aiReady, chatMessages, atClear, focus>>

\* ------------------------------------------------------------ useAISession
PromptKinds == {"visual", "textonly", "ocr"}
Config(image, prompt, history) ==
  [image |-> image, prompt |-> prompt, history |-> history]

NoCall == [st |-> "none", w |-> "main", op |-> "none", sid |-> 0, res |-> 0,
           waited |-> FALSE, createThrew |-> FALSE,
           cfg |-> Config(FALSE, "textonly", FALSE)]

\* the createSession attempt of window w that is in flight (0 if none)
InFlight(w) ==
  IF \E i \in 1..Len(sessions) : sessions[i].win = w /\ sessions[i].status = "creating"
  THEN CHOOSE i \in 1..Len(sessions) : sessions[i].win = w /\ sessions[i].status = "creating"
  ELSE 0

\* session.destroy() as the host sees it; the hook swallows an exception of
\* destroy() and clears the slot, so the session counts as destroyed either way
Destroy(ss, sid) == [ss EXCEPT ![sid].status = "destroyed"]

\* createSession up to its first await; ref and ss are sessionRef and sessions
\* as the caller left them
createSession(p, w, op, cfg, ref, ss) ==
  IF isCreatingRef[w]
  THEN /\ call' = [call EXCEPT ![p] = [st |-> "wait", w |-> w, op |-> op,
                                       sid |-> InFlight(w), res |-> 0, waited |-> TRUE,
                                       createThrew |-> FALSE, cfg |-> cfg]]
       /\ sessionRef' = ref
       /\ sessions' = ss
       /\ UNCHANGED isCreatingRef
  ELSE IF ~hostDefined
  THEN /\ call' = [call EXCEPT ![p] = [st |-> "ret", w |-> w, op |-> op,
                                       sid |-> 0, res |-> Throw, waited |-> FALSE,
                                       createThrew |-> FALSE, cfg |-> cfg]]
       /\ sessionRef' = [ref EXCEPT ![w] = Null]
       /\ sessions' = ss
       /\ UNCHANGED isCreatingRef
  ELSE /\ call' = [call EXCEPT ![p] = [st |-> "avail", w |-> w, op |-> op,
                                       sid |-> Len(ss) + 1, res |-> 0, waited |-> FALSE,
                                       createThrew |-> FALSE, cfg |-> cfg]]
       /\ isCreatingRef' = [isCreatingRef EXCEPT ![w] = TRUE]
       /\ sessionRef' = ref
       /\ sessions' = Append(ss, [win |-> w, image |-> cfg.image,
                                  prompt |-> cfg.prompt, history |-> cfg.history,
                                  status |-> "creating"])

\* getOrCreateSession without the test of the slot (lines 67-69)
getOrCreateSessionAlways(p, w, cfg) ==
  createSession(p, w, "get", cfg, sessionRef, sessions)

getOrCreateSession(p, w, cfg) ==
  IF sessionRef[w] # Null
  THEN /\ call' = [call EXCEPT ![p] = [st |-> "ret", w |-> w, op |-> "get",
                                       sid |-> 0, res |-> sessionRef[w], waited |-> FALSE,
                                       createThrew |-> FALSE, cfg |-> cfg]]
       /\ UNCHANGED <<sessionRef, isCreatingRef, sessions>>
  ELSE createSession(p, w, "get", cfg, sessionRef, sessions)

\* recreateSession that drops the held session from the slot without calling
\* destroy() on it
recreateSessionNoDestroy(p, w, cfg) ==
  createSession(p, w, "recreate", cfg, [sessionRef EXCEPT ![w] = Null], sessions)

recreateSession(p, w, cfg) ==
  IF sessionRef[w] # Null
  THEN createSession(p, w, "recreate", cfg, [sessionRef EXCEPT ![w] = Null],
                     Destroy(sessions, sessionRef[w]))
  ELSE createSession(p, w, "recreate", cfg, sessionRef, sessions)

destroySession(w) ==
  IF sessionRef[w] # Null
  THEN /\ sessions' = Destroy(sessions, sessionRef[w])
       /\ sessionRef' = [sessionRef EXCEPT ![w] = Null]
  ELSE UNCHANGED <<sessionRef, sessions>>

\* the catch block of createSession without the finally block (lines 60-62)
CreateFailedKeepsFlag(p, inCreate) ==
  LET w == call[p].w IN
  /\ sessions' = [sessions EXCEPT ![call[p].sid].status = "failed"]
  /\ sessionRef' = [sessionRef EXCEPT ![w] = Null]
  /\ UNCHANGED isCreatingRef
  /\ call' = [call EXCEPT ![p].st = "ret", ![p].res = Throw, ![p].createThrew = inCreate]

\* the catch and finally blocks of createSession
CreateFailed(p, inCreate) ==
  LET w == call[p].w IN
  /\ sessions' = [sessions EXCEPT ![call[p].sid].status = "failed"]
  /\ sessionRef' = [sessionRef EXCEPT ![w] = Null]
  /\ isCreatingRef' = [isCreatingRef EXCEPT ![w] = FALSE]
  /\ call' = [call EXCEPT ![p].st = "ret", ![p].res = Throw, ![p].createThrew = inCreate]

ReadyPcs == {"m_capture", "m_try", "m_prompt", "p_capture", "p_hsr", "p_prompt",
             "p_fbprompt", "fin"}
Ready(p) == call[p].st = "ret" \/ pc[p] \in ReadyPcs
NoMicrotask == \A p \in Procs : ~Ready(p)

\* the values the next Date.now() can return: a later millisecond once a
\* timer, host or user event has come since the last read; within one chain
\* of microtasks possibly the same millisecond
Ticks == IF elapsed \/ NoMicrotask THEN {now + 1} ELSE {now, now + 1}
ReadClock(t) == now' = t /\ elapsed' = FALSE
\* an action that does not read the clock
NoRead == UNCHANGED now /\ elapsed' = (elapsed \/ NoMicrotask)

\* await window.LanguageModel.availability() settles
HostAvailability(p) ==
  /\ NoMicrotask
  /\ call[p].st = "avail"
  /\ \E a \in {"available", "downloading"} :
       IF a = "available"
       THEN /\ call' = [call EXCEPT ![p].st = "create"]
            /\ UNCHANGED <<sessionRef, isCreatingRef, sessions>>
       ELSE CreateFailed(p, FALSE)
  /\ UNCHANGED <<envVars, pc, loc, storeVars, screenVars, pipVars, countVars>> /\ NoRead

\* await params() and await create() settle
HostCreate(p) ==
  /\ NoMicrotask
  /\ call[p].st = "create"
  /\ \E ok \in BOOLEAN :
       IF ok
       THEN LET w == call[p].w IN
            /\ sessions' = [sessions EXCEPT ![call[p].sid].status = "live"]
            /\ sessionRef' = [sessionRef EXCEPT ![w] = call[p].sid]
            /\ isCreatingRef' = [isCreatingRef EXCEPT ![w] = FALSE]
            /\ call' = [call EXCEPT ![p].st = "ret", ![p].res = call[p].sid]
       ELSE CreateFailed(p, TRUE)
  /\ UNCHANGED <<envVars, pc, loc, storeVars, screenVars, pipVars, countVars>> /\ NoRead

\* the 50 ms timer of a waiting caller fires and finds the flag released
WaiterPoll(p) ==
  /\ NoMicrotask
  /\ call[p].st = "wait"
  /\ ~isCreatingRef[call[p].w]
  /\ call' = [call EXCEPT ![p].st = "ret", ![p].res = sessionRef[call[p].w]]
  /\ UNCHANGED <<sessionRef, isCreatingRef, sessions>>
  /\ UNCHANGED <<envVars, pc, loc, storeVars, screenVars, pipVars, countVars>> /\ NoRead


\* ------------------------------------------------------- conversation store
ReadyText == "ready"   \* "AI Screen Assistant is ready! ..."

Msg(id, type, content) == [id |-> id, type |-> type, content |-> content]

\* SharedChatProvider.addMessage: setMessages(prev => [...prev, newMessage])
addMessage(msgs, type, content, id) == Append(msgs, Msg(id, type, content))

\* SharedChatProvider.updateMessage: every message with this id gets the content
updateMessage(msgs, id, content) ==
  [i \in DOMAIN msgs |->
     IF msgs[i].id = id THEN [msgs[i] EXCEPT !.content = content] ELSE msgs[i]]

\* SharedChatProvider.clearConversation
clearConversation(id) == <<Msg(id, "system", <<ReadyText>>)>>


\* ----------------------------------------------------------- useWindowFocus
DebounceMs     == 1500    \* debounceMs
MinToggleGapMs == 3000    \* now - lastToggleRef.current > 3000
CloseDelayMs   == 500     \* the timeout of handleWindowFocus

\* the time Date.now() shows when ChatPage mounts; lastToggleRef starts at 0
Epoch   == MinToggleGapMs + CloseDelayMs
MaxTime == Epoch + MaxTicks * CloseDelayMs

\* autoFloat: autoFloatEnabled; hasFocus: the main window has the focus;
\* debounceRef, closeTimer: the time a pending timer is due (0: none);
\* rendered: what ChatPage had rendered when debounceRef was set; time: the
\* clock, in steps of CloseDelayMs.  History of the current blur: blurAt (0:
\* none that could lead to an automatic open), eligible (the interval since the
\* last automatic toggle allows an open when the debounce ends), opened;
\* autoAt: the last automatic open; focusAt: the last regain of the focus.
FocusInit(autoFloat) ==
  [autoFloat |-> autoFloat, hasFocus |-> TRUE, isBlurredRef |-> FALSE,
   debounceRef |-> 0, rendered |-> <<>>, closeTimer |-> 0, lastToggleRef |-> 0,
   time |-> Epoch, blurAt |-> 0, eligible |-> FALSE, opened |-> FALSE,
   autoAt |-> 0, focusAt |-> 0]

\* ------------------------------------------------------------ initial state
LocInit == [hsa |-> FALSE, ready |-> FALSE, snap |-> <<>>, shot |-> FALSE,
            session |-> Null, messageId |-> 0, response |-> <<>>, emitted |-> <<>>,
            mmFailed |-> FALSE, heldAtFail |-> 0, lenAtFail |-> 0,
            nRecreate |-> 0, nPrompt |-> 0, nErr |-> 0,
            createThrew |-> FALSE, nAfterThrow |-> 0, viaImage |-> FALSE,
            end |-> "none", spoken |-> <<>>, before |-> <<>>]

PipClosed == [phase |-> "closed", isFloating |-> FALSE,
              sharedMessages |-> <<>>, sharedIsThinking |-> FALSE,
              sharedLoadingStage |-> "", sharedScreenStream |-> 0,
              hasMainScreenAccess |-> FALSE, screenStreamRef |-> 0,
              windowGone |-> FALSE,
              reqWidth |-> 0, reqHeight |-> 0, width |-> 0, height |-> 0,
              calls |-> 0, roots |-> 0]

InitHook ==
  /\ sessionRef = [w \in Windows |-> Null]
  /\ isCreatingRef = [w \in Windows |-> FALSE]
  /\ sessions = <<>>
  /\ call = [p \in Procs |-> NoCall]
  /\ pc = [p \in Procs |-> "idle"]
  /\ loc = [p \in Procs |-> LocInit]
  /\ isThinking = FALSE
  /\ loadingStage = ""
  /\ pip = PipClosed
  /\ localMessages = <<>>
  /\ localIsThinking = FALSE
  /\ localLoadingStage = ""
  /\ screenReq = "none"
  /\ elapsed = TRUE
  /\ nq = 0
  /\ nToggles = 0
  /\ nClears = 0
  /\ nOpens = 0
  /\ atClear = 0
  /\ chatMessages = <<Msg(InitialId, "system", <<ReadyText>>)>>

\* ChatPage as mounted
InitScreenOff ==
  /\ messages = <<Msg(InitialId, "system", <<ReadyText>>)>>
  /\ hasScreenAccess = FALSE
  /\ streamRef = 0
  /\ tracks = <<>>
  /\ now = InitialId + 1

\* ChatPage after the user enabled screen capture and the request was granted
InitScreenOn ==
  /\ messages = <<Msg(InitialId, "system", <<ReadyText>>),
                  Msg(InitialId + 1, "system", <<"Screen view enabled">>)>>
  /\ hasScreenAccess = TRUE
  /\ streamRef = 1
  /\ tracks = <<"live">>
  /\ now = InitialId + 1

\* ChatPage is only shown when window.LanguageModel exists (it navigates away otherwise)
Init ==
  /\ hostDefined = TRUE
  /\ aiReady \in BOOLEAN
  /\ InitHook
  /\ focus = FocusInit(FALSE)
  /\ InitScreenOff \/ InitScreenOn

\* -------------------------------------------- buildCleanConversationContext
Blank == " "
RECURSIVE TrimLeft(_)
TrimLeft(c) == IF c # <<>> /\ Head(c) = Blank THEN TrimLeft(Tail(c)) ELSE c
RECURSIVE TrimRight(_)
TrimRight(c) ==
  IF c # <<>> /\ c[Len(c)] = Blank THEN TrimRight(SubSeq(c, 1, Len(c) - 1)) ELSE c
\* String.prototype.trim on a text held as a sequence of pieces
Trim(c) == TrimRight(TrimLeft(c))

IsConversation(m) == m.type = "user" \/ m.type = "assistant"
LastN(q, n) == IF Len(q) <= n THEN q ELSE SubSeq(q, Len(q) - n + 1, Len(q))

\* one <<role, text>> pair per kept message, in order
buildCleanConversationContext(msgs) ==
  LET recent == LastN(SelectSeq(msgs, IsConversation), HistoryLen) IN
  [i \in 1..Len(recent) |->
     <<IF recent[i].type = "user" THEN "User" ELSE "Assistant", Trim(recent[i].content)>>]

\* ----------------------------------------------- ChatPage.handleUserQuery
QueryText == "q"
\* the k-th chunk of the n-th streamed completion of the query of process p
Chunk(p, n, k) == ToString(<<p, n, k>>)

\* the capability section of the system prompt
Prompt(hsa) == IF hsa THEN "visual" ELSE "textonly"
\* the capability section of PIPApp's textOnlySystemPrompt
TextOnlyPrompt(hsa) == IF hsa THEN "ocr" ELSE "textonly"

Goto(p, l) == pc' = [pc EXCEPT ![p] = l]
SetLoc(p, l) == loc' = [loc EXCEPT ![p] = l]
HookIdle(p) ==
  /\ call' = [call EXCEPT ![p] = NoCall]
  /\ UNCHANGED <<sessionRef, isCreatingRef, sessions>>

\* what the handler learns from the settled hook call
Seen(p) == [loc[p] EXCEPT !.createThrew = @ \/ call[p].createThrew]
\* a further creation call of the same query
Retry(l) == [l EXCEPT !.nAfterThrow = IF l.createThrew THEN @ + 1 ELSE @]
\* the multimodal path threw
MMFail(p, l) == [l EXCEPT !.mmFailed = TRUE, !.heldAtFail = sessionRef[win(p)],
                          !.lenAtFail = Len(sessions)]

MainFrame == UNCHANGED <<envVars, screenVars, pipVars, countVars>>

\* lines 363-384: the submit of ChatInterface and handleUserQuery up to the capture
MainSubmit(p) ==
  /\ NoMicrotask
  /\ p \in MainProcs /\ pc[p] = "idle"
  /\ \A q \in MainProcs : q < p => pc[q] # "idle"
  /\ ~isThinking
  /\ pip.phase # "open"
  /\ nq < MaxQueries
  /\ \E t \in Ticks :
       /\ ReadClock(t)
       /\ messages' = addMessage(messages, "user", <<QueryText>>, t)
  /\ isThinking' = TRUE
  /\ SetLoc(p, [LocInit EXCEPT !.hsa = hasScreenAccess, !.ready = aiReady,
                               !.snap = messages, !.before = messages])
  /\ IF hasScreenAccess /\ streamRef # 0
     THEN loadingStage' = "capturing" /\ Goto(p, "m_capture")
     ELSE loadingStage' = "thinking" /\ Goto(p, "m_try")
  /\ nq' = nq + 1
  /\ UNCHANGED <<envVars, hookVars, screenVars, pipVars, nToggles, nClears, nOpens>>

\* lines 377-381: silentCapture settles (captureFrame has no host await)
MainCapture(p) ==
  /\ pc[p] = "m_capture"
  /\ \E frame \in BOOLEAN : SetLoc(p, [loc[p] EXCEPT !.shot = frame])
  /\ loadingStage' = "analyzing"
  /\ Goto(p, "m_try")
  /\ UNCHANGED <<hookVars, messages, isThinking>> /\ NoRead
  /\ MainFrame

\* lines 557-565: the outer catch
MainOuterCatch(p, l) ==
  /\ \E t \in Ticks :
       /\ ReadClock(t)
       /\ messages' = addMessage(messages, "error", <<"Error">>, t)
  /\ isThinking' = FALSE
  /\ loadingStage' = ""
  /\ SetLoc(p, [l EXCEPT !.nErr = @ + 1, !.end = "error"])
  /\ Goto(p, "fin")
  /\ HookIdle(p)

\* lines 386-424 and 459-464: the aiReady check and the first session call
MainTry(p) ==
  /\ pc[p] = "m_try"
  /\ IF ~loc[p].ready
     THEN /\ \E t \in Ticks :
               /\ ReadClock(t)
               /\ messages' = addMessage(messages, "error", <<"AI not ready">>, t)
          /\ isThinking' = FALSE
          /\ loadingStage' = ""
          /\ SetLoc(p, [loc[p] EXCEPT !.nErr = @ + 1, !.end = "notready"])
          /\ Goto(p, "fin")
          /\ UNCHANGED hookVars
     ELSE /\ IF loc[p].shot /\ loc[p].hsa
             THEN /\ getOrCreateSession(p, "main", Config(TRUE, Prompt(loc[p].hsa), <<>>))
                  /\ Goto(p, "m_mmget")
             ELSE /\ getOrCreateSession(p, "main", Config(FALSE, Prompt(loc[p].hsa), <<>>))
                  /\ Goto(p, "m_txtget")
          /\ UNCHANGED <<loc, storeVars>> /\ NoRead
  /\ MainFrame

\* lines 459-464 reached from the multimodal block
MainTextOnly(p, l) ==
  /\ getOrCreateSession(p, "main", Config(FALSE, Prompt(l.hsa), <<>>))
  /\ SetLoc(p, Retry(l))
  /\ Goto(p, "m_txtget")
  /\ UNCHANGED <<storeVars>> /\ NoRead

\* lines 421-457: the multimodal getOrCreateSession settles
MainMMGot(p) ==
  /\ pc[p] = "m_mmget" /\ call[p].st = "ret"
  /\ IF call[p].res = Throw
     THEN MainTextOnly(p, MMFail(p, Seen(p)))
     ELSE IF call[p].res = Null
     THEN MainTextOnly(p, Seen(p))
     ELSE /\ SetLoc(p, [loc[p] EXCEPT !.session = call[p].res, !.viaImage = TRUE])
          /\ Goto(p, "m_append")
          /\ HookIdle(p)
          /\ UNCHANGED <<storeVars>> /\ NoRead
  /\ MainFrame

FallbackConfig(p) ==
  Config(FALSE, Prompt(loc[p].hsa), buildCleanConversationContext(loc[p].snap))

\* lines 462-484: the text-only getOrCreateSession settles
MainTxtGot(p) ==
  /\ pc[p] = "m_txtget" /\ call[p].st = "ret"
  /\ IF call[p].res = Throw
     THEN MainOuterCatch(p, Seen(p))
     ELSE IF call[p].res = Null
     THEN /\ recreateSession(p, "main", FallbackConfig(p))
          /\ SetLoc(p, [Retry(Seen(p)) EXCEPT !.nRecreate = @ + 1])
          /\ Goto(p, "m_txtrec")
          /\ UNCHANGED <<storeVars>> /\ NoRead
     ELSE /\ SetLoc(p, [loc[p] EXCEPT !.session = call[p].res])
          /\ Goto(p, "m_prompt")
          /\ HookIdle(p)
          /\ UNCHANGED <<storeVars>> /\ NoRead
  /\ MainFrame

\* lines 473-483: the recreateSession of the text-only block settles
MainTxtRec(p) ==
  /\ pc[p] = "m_txtrec" /\ call[p].st = "ret"
  /\ IF call[p].res = Throw
     THEN MainOuterCatch(p, Seen(p))
     ELSE IF call[p].res = Null
     THEN /\ \E t \in Ticks :
               /\ ReadClock(t)
               /\ messages' = addMessage(messages, "error", <<"Failed to create AI session">>, t)
          /\ isThinking' = FALSE
          /\ loadingStage' = ""
          /\ SetLoc(p, [loc[p] EXCEPT !.nErr = @ + 1, !.end = "nosession"])
          /\ Goto(p, "fin")
          /\ HookIdle(p)
     ELSE /\ SetLoc(p, [loc[p] EXCEPT !.session = call[p].res])
          /\ Goto(p, "m_prompt")
          /\ HookIdle(p)
          /\ UNCHANGED <<storeVars>> /\ NoRead
  /\ MainFrame

\* lines 486-496: promptStreaming and the empty assistant message
MainPrompt(p) ==
  /\ pc[p] = "m_prompt"
  /\ loadingStage' = "generating"
  /\ \E t \in Ticks :
       /\ ReadClock(t)
       /\ messages' = addMessage(messages, "assistant", <<>>, t)
       /\ SetLoc(p, [loc[p] EXCEPT !.messageId = t, !.response = <<>>, !.emitted = <<>>,
                                   !.nPrompt = @ + 1])
  /\ Goto(p, "m_stream")
  /\ UNCHANGED <<hookVars, isThinking>>
  /\ MainFrame

\* lines 512-526: the streaming catch up to recreateSession
MainStreamCatch(p) ==
  /\ isThinking' = FALSE
  /\ loadingStage' = ""
  /\ recreateSession(p, "main", FallbackConfig(p))
  /\ SetLoc(p, [Retry(IF loc[p].viaImage THEN MMFail(p, loc[p]) ELSE loc[p])
                  EXCEPT !.nRecreate = @ + 1])
  /\ Goto(p, "m_fbrec")
  /\ UNCHANGED <<messages>> /\ NoRead

\* lines 528-555: the fallback recreateSession settles
MainFbRec(p) ==
  /\ pc[p] = "m_fbrec" /\ call[p].st = "ret"
  /\ IF call[p].res = Throw \/ call[p].res = Null
     THEN /\ \E t \in Ticks :
               /\ ReadClock(t)
               /\ messages' = addMessage(messages, "error", <<"AI Error">>, t)
          /\ SetLoc(p, [Seen(p) EXCEPT !.nErr = @ + 1, !.end = "bothFailed"])
          /\ Goto(p, "fin")
     ELSE /\ \E t \in Ticks :
               /\ ReadClock(t)
               /\ messages' = addMessage(messages, "assistant", <<>>, t)
               /\ SetLoc(p, [loc[p] EXCEPT !.session = call[p].res, !.messageId = t,
                                           !.response = <<>>, !.emitted = <<>>,
                                           !.nPrompt = @ + 1])
          /\ Goto(p, "m_fbstream")
  /\ HookIdle(p)
  /\ UNCHANGED <<isThinking, loadingStage>>
  /\ MainFrame

\* ------------------------------------------------------------------ PIPApp
LocalOpen == pip.phase = "open"

\* two successive Date.now() reads
Ticks2 == {tt \in Ticks \X (now..(now + 2)) : tt[2] \in {tt[1], tt[1] + 1}}

\* handleSetIsThinking / handleSetLoadingStage
PipSetThinking(v) ==
  /\ isThinking' = v
  /\ localIsThinking' = IF LocalOpen THEN v ELSE localIsThinking
PipSetStage(v) ==
  /\ loadingStage' = v
  /\ localLoadingStage' = IF LocalOpen THEN v ELSE localLoadingStage

\* handleAddMessage without an id: the shadow copy and the store each read the clock
PipAddMessage(type, content) ==
  \E tt \in Ticks2 :
    /\ ReadClock(tt[2])
    /\ localMessages' = IF LocalOpen THEN addMessage(localMessages, type, content, tt[1])
                        ELSE localMessages
    /\ messages' = addMessage(messages, type, content, tt[2])

\* handleAddMessage with the id the caller read from the clock
PipAddMessageId(type, content, id) ==
  /\ localMessages' = IF LocalOpen THEN addMessage(localMessages, type, content, id)
                      ELSE localMessages
  /\ messages' = addMessage(messages, type, content, id)

\* handleUpdateMessage
PipUpdateMessage(id, content) ==
  /\ localMessages' = IF LocalOpen THEN updateMessage(localMessages, id, content)
                      ELSE localMessages
  /\ messages' = updateMessage(messages, id, content)

PipFrame == UNCHANGED <<envVars, screenVars, pip, countVars>>

\* part_004 lines 316-330: the submit of ChatInterface and handleUserQuery
PipSubmit(p) ==
  /\ NoMicrotask
  /\ p = PipProc /\ pc[p] = "idle"
  /\ LocalOpen /\ ~pip.windowGone
  /\ ~localIsThinking
  /\ nq < MaxQueries
  /\ PipAddMessage("user", <<QueryText>>)
  /\ PipSetThinking(TRUE)
  /\ SetLoc(p, [LocInit EXCEPT !.hsa = pip.hasMainScreenAccess, !.ready = TRUE,
                               !.snap = pip.sharedMessages, !.before = messages])
  /\ IF pip.hasMainScreenAccess
     THEN PipSetStage("capturing") /\ Goto(p, "p_capture")
     ELSE PipSetStage("thinking") /\ Goto(p, "p_hsr")
  /\ nq' = nq + 1
  /\ UNCHANGED <<envVars, hookVars, screenVars, pip, nToggles, nClears, nOpens>>

\* captureScreen without the readyState test (part_004 lines 193-200)
PipCaptureNoEndedTest(p) ==
  /\ pc[p] = "p_capture"
  /\ IF pip.screenStreamRef = 0
     THEN /\ PipSetStage("analyzing")
          /\ Goto(p, "p_hsr")
     ELSE /\ Goto(p, "p_frame")
          /\ UNCHANGED <<loadingStage, localLoadingStage>>
  /\ UNCHANGED <<hookVars, loc, messages, localMessages, isThinking, localIsThinking>> /\ NoRead
  /\ PipFrame

\* part_004 lines 190-203: captureScreen up to captureFrame
PipCapture(p) ==
  /\ pc[p] = "p_capture"
  /\ IF pip.screenStreamRef = 0 \/ tracks[pip.screenStreamRef] = "ended"
     THEN /\ PipSetStage("analyzing")
          /\ Goto(p, "p_hsr")
     ELSE /\ Goto(p, "p_frame")
          /\ UNCHANGED <<loadingStage, localLoadingStage>>
  /\ UNCHANGED <<hookVars, loc, messages, localMessages, isThinking, localIsThinking>> /\ NoRead
  /\ PipFrame

\* part_004 lines 164-188: the video element of captureFrame loads or errors
HostFrame(p) ==
  /\ NoMicrotask
  /\ pc[p] = "p_frame"
  /\ \E r \in {"frame", "null", "reject"} :
       IF r = "reject"
       THEN /\ SetLoc(p, [loc[p] EXCEPT !.end = "aborted"])
            /\ Goto(p, "fin")
            /\ UNCHANGED <<loadingStage, localLoadingStage>>
       ELSE /\ SetLoc(p, [loc[p] EXCEPT !.shot = (r = "frame")])
            /\ PipSetStage("analyzing")
            /\ Goto(p, "p_hsr")
  /\ UNCHANGED <<hookVars, messages, localMessages, isThinking, localIsThinking>> /\ NoRead
  /\ PipFrame

\* part_004 lines 525-533: the catch of handleStreamingResponse
PipOuterCatch(p, l) ==
  /\ PipSetThinking(FALSE)
  /\ PipSetStage("")
  /\ PipAddMessage("error", <<"Error">>)
  /\ SetLoc(p, [l EXCEPT !.nErr = @ + 1,
                         !.end = IF l.mmFailed THEN "bothFailed" ELSE "error"])
  /\ Goto(p, "fin")
  /\ HookIdle(p)

\* part_004 lines 349-357: the typeof check
PipHSR(p) ==
  /\ pc[p] = "p_hsr"
  /\ IF ~hostDefined
     THEN PipOuterCatch(p, loc[p])
     ELSE /\ Goto(p, "p_avail")
          /\ UNCHANGED <<hookVars, loc, storeVars, localMessages, localIsThinking, localLoadingStage>> /\ NoRead
  /\ PipFrame

\* part_004 lines 357-397: availability() settles, then getOrCreateSession
PipAvail(p) ==
  /\ NoMicrotask
  /\ pc[p] = "p_avail"
  /\ \E a \in {"available", "downloading"} :
       IF a # "available"
       THEN PipOuterCatch(p, loc[p])
       ELSE /\ getOrCreateSession(p, "pip", Config(TRUE, Prompt(loc[p].hsa), <<>>))
            /\ Goto(p, "p_mmget")
            /\ UNCHANGED <<loc, storeVars, localMessages, localIsThinking, localLoadingStage>> /\ NoRead
  /\ PipFrame

\* part_004 lines 449-491: catch (multimodalError) up to recreateSession
PipFallback(p, l) ==
  /\ recreateSession(p, "pip", Config(FALSE, TextOnlyPrompt(l.hsa),
                                      buildCleanConversationContext(l.snap)))
  /\ SetLoc(p, [Retry(MMFail(p, l)) EXCEPT !.nRecreate = @ + 1])
  /\ Goto(p, "p_fbrec")
  /\ UNCHANGED <<storeVars, localMessages, localIsThinking, localLoadingStage>> /\ NoRead

\* part_004 lines 394-429: getOrCreateSession settles
PipMMGot(p) ==
  /\ pc[p] = "p_mmget" /\ call[p].st = "ret"
  /\ IF call[p].res = Throw \/ call[p].res = Null
     THEN PipFallback(p, Seen(p))
     ELSE /\ SetLoc(p, [loc[p] EXCEPT !.session = call[p].res])
          /\ Goto(p, IF loc[p].shot THEN "p_append" ELSE "p_prompt")
          /\ HookIdle(p)
          /\ UNCHANGED <<storeVars, localMessages, localIsThinking, localLoadingStage>> /\ NoRead
  /\ PipFrame

\* part_004 lines 431-437: promptStreaming and the empty assistant message
PipPrompt(p) ==
  /\ pc[p] = "p_prompt"
  /\ PipSetStage("generating")
  /\ \E t \in Ticks :
       /\ ReadClock(t)
       /\ PipAddMessageId("assistant", <<>>, t)
       /\ SetLoc(p, [loc[p] EXCEPT !.messageId = t, !.emitted = <<>>, !.nPrompt = @ + 1])
  /\ Goto(p, "p_stream")
  /\ UNCHANGED <<hookVars, isThinking, localIsThinking>>
  /\ PipFrame

\* part_004 lines 489-504: the fallback recreateSession settles
PipFbRec(p) ==
  /\ pc[p] = "p_fbrec" /\ call[p].st = "ret"
  /\ IF call[p].res = Throw \/ call[p].res = Null
     THEN PipOuterCatch(p, Seen(p))
     ELSE /\ SetLoc(p, [loc[p] EXCEPT !.session = call[p].res])
          /\ HookIdle(p)
          /\ IF loc[p].shot
             THEN PipSetStage("ocr") /\ Goto(p, "p_ocr")
             ELSE Goto(p, "p_fbprompt") /\ UNCHANGED <<loadingStage, localLoadingStage>>
          /\ UNCHANGED <<messages, localMessages, isThinking, localIsThinking>> /\ NoRead
  /\ PipFrame

\* part_004 lines 260-281 and 497-504: Tesseract.recognize settles
HostOcr(p) ==
  /\ NoMicrotask
  /\ pc[p] = "p_ocr"
  /\ \E text \in BOOLEAN :
       IF text THEN PipSetStage("generating")
       ELSE UNCHANGED <<loadingStage, localLoadingStage>>
  /\ Goto(p, "p_fbprompt")
  /\ UNCHANGED <<hookVars, loc, messages, localMessages, isThinking, localIsThinking>> /\ NoRead
  /\ PipFrame

\* part_004 lines 506-514: the assistant message of the fallback and promptStreaming
PipFbPrompt(p) ==
  /\ pc[p] = "p_fbprompt"
  /\ IF loc[p].messageId = 0
     THEN \E t \in Ticks :
            /\ ReadClock(t)
            /\ PipAddMessageId("assistant", <<>>, t)
            /\ SetLoc(p, [loc[p] EXCEPT !.messageId = t, !.emitted = <<>>,
                                        !.nPrompt = @ + 1])
     ELSE /\ SetLoc(p, [loc[p] EXCEPT !.emitted = <<>>, !.nPrompt = @ + 1])
          /\ UNCHANGED <<messages, localMessages>> /\ NoRead
  /\ Goto(p, "p_fbstream")
  /\ UNCHANGED <<hookVars, isThinking, localIsThinking, loadingStage, localLoadingStage>>
  /\ PipFrame

\* ------------------------------------------------- the host's session object
StreamPcs == {"m_stream", "m_fbstream", "p_stream", "p_fbstream"}
\* a destroyed session rejects append and promptStreaming
SessionLive(p) == sessions[loc[p].session].status = "live"

\* session.append settles (ChatPage lines 436-457, part_004 lines 414-429)
HostAppend(p) ==
  /\ NoMicrotask
  /\ pc[p] \in {"m_append", "p_append"}
  /\ \E ok \in BOOLEAN :
       IF ok /\ SessionLive(p)
       THEN /\ Goto(p, IF win(p) = "main" THEN "m_prompt" ELSE "p_prompt")
            /\ UNCHANGED <<hookVars, loc>>
       ELSE IF win(p) = "main"
       THEN /\ getOrCreateSession(p, "main", Config(FALSE, Prompt(loc[p].hsa), <<>>))
            /\ SetLoc(p, [MMFail(p, loc[p]) EXCEPT !.session = Null, !.viaImage = FALSE])
            /\ Goto(p, "m_txtget")
       ELSE /\ recreateSession(p, "pip", Config(FALSE, TextOnlyPrompt(loc[p].hsa),
                                               buildCleanConversationContext(loc[p].snap)))
            /\ SetLoc(p, [MMFail(p, loc[p]) EXCEPT !.nRecreate = @ + 1])
            /\ Goto(p, "p_fbrec")
  /\ UNCHANGED <<envVars, storeVars, screenVars, pipVars, countVars>> /\ NoRead

\* the stream delivers a chunk (ChatPage lines 497-500 and 534-537,
\* part_004 lines 439-442 and 516-519)
HostChunk(p) ==
  /\ NoMicrotask
  /\ pc[p] \in StreamPcs
  /\ SessionLive(p)
  /\ Len(loc[p].emitted) < MaxChunks
  /\ LET c == Chunk(p, loc[p].nPrompt, Len(loc[p].emitted) + 1)
         r == Append(loc[p].response, c) IN
       /\ SetLoc(p, [loc[p] EXCEPT !.response = r, !.emitted = Append(@, c)])
       /\ IF win(p) = "main"
          THEN messages' = updateMessage(messages, loc[p].messageId, r)
               /\ UNCHANGED localMessages
          ELSE PipUpdateMessage(loc[p].messageId, r)
  /\ UNCHANGED <<envVars, hookVars, pc, isThinking, loadingStage, screenVars, pip, localIsThinking, localLoadingStage, countVars>> /\ NoRead

\* what reaches synthSpeak at the end of a stream, with settings.autoSpeak on:
\* ChatPage calls speakAIResponse(response) if response.trim() is not empty
\* (lines 506-509 and 541-544, part_000 lines 121-131); PIPApp has no call of
\* it, and ChatInterface takes no TTS context in PIP mode (part_002 line 49)
speakAIResponse(p, response) ==
  IF win(p) = "main" /\ Trim(response) # <<>> THEN response ELSE <<>>

\* the stream ends (ChatPage lines 502-511 and 538-544, part_004 lines 444-446
\* and 521-523)
HostStreamEnd(p) ==
  /\ NoMicrotask
  /\ pc[p] \in StreamPcs
  /\ SessionLive(p)
  /\ IF win(p) = "main"
     THEN /\ isThinking' = FALSE
          /\ loadingStage' = ""
          /\ UNCHANGED <<localIsThinking, localLoadingStage>>
     ELSE PipSetThinking(FALSE) /\ PipSetStage("")
  /\ SetLoc(p, [loc[p] EXCEPT !.end = "ok", !.spoken = speakAIResponse(p, loc[p].response)])
  /\ Goto(p, "fin")
  /\ UNCHANGED <<envVars, hookVars, messages, localMessages, screenVars, pip, countVars>> /\ NoRead

\* the stream throws
HostStreamFail(p) ==
  /\ NoMicrotask
  /\ pc[p] \in StreamPcs
  /\ IF pc[p] = "m_stream"
     THEN MainStreamCatch(p) /\ UNCHANGED <<localMessages, localIsThinking, localLoadingStage>>
     ELSE IF pc[p] = "m_fbstream"
     THEN /\ \E t \in Ticks :
               /\ ReadClock(t)
               /\ messages' = addMessage(messages, "error", <<"AI Error">>, t)
          /\ SetLoc(p, [loc[p] EXCEPT !.nErr = @ + 1, !.end = "bothFailed"])
          /\ Goto(p, "fin")
          /\ UNCHANGED <<hookVars, isThinking, loadingStage, localMessages,
                         localIsThinking, localLoadingStage>>
     ELSE IF pc[p] = "p_stream"
     THEN PipFallback(p, loc[p])
     ELSE PipOuterCatch(p, [loc[p] EXCEPT !.mmFailed = TRUE])
  /\ UNCHANGED <<envVars, screenVars, pip, countVars>>

\* the handler returns
Finish(p) ==
  /\ pc[p] = "fin"
  /\ Goto(p, "idle")
  /\ SetLoc(p, LocInit)
  /\ UNCHANGED <<envVars, hookVars, storeVars, screenVars, pipVars, countVars>> /\ NoRead

\* ---------------------------------------------------- buttons of ChatPage
\* ChatPage.handleClearConversation (lines 569-574)
MainClear ==
  /\ NoMicrotask
  /\ pip.phase # "open"
  /\ nClears < MaxClears
  /\ destroySession("main")
  /\ \E t \in Ticks :
       /\ ReadClock(t)
       /\ messages' = clearConversation(t)
  /\ nClears' = nClears + 1
  /\ atClear' = Len(sessions)
  /\ UNCHANGED <<hostDefined, aiReady, chatMessages, focus, isCreatingRef, call, pc, loc, isThinking, loadingStage,
                 screenVars, pipVars, nq, nToggles, nOpens>>

\* PIPApp.handleClearConversation (part_004 lines 120-132)
PipClear ==
  /\ NoMicrotask
  /\ LocalOpen /\ ~pip.windowGone
  /\ nClears < MaxClears
  /\ \E tt \in Ticks2 :
       /\ ReadClock(tt[2])
       /\ localMessages' = clearConversation(tt[1])
       /\ messages' = clearConversation(tt[2])
  /\ destroySession("pip")
  /\ nClears' = nClears + 1
  /\ atClear' = Len(sessions)
  /\ UNCHANGED <<hostDefined, aiReady, chatMessages, focus, isCreatingRef, call, pc, loc, isThinking, loadingStage,
                 screenVars, pip, localIsThinking, localLoadingStage, nq, nToggles, nOpens>>

HasScreenMessage(msgs) ==
  \E i \in 1..Len(msgs) : msgs[i].content = <<"Screen view enabled">>

\* ChatPage.handleScreenToggle (lines 576-586) up to the await
ScreenToggle ==
  /\ NoMicrotask
  /\ pip.phase # "open"
  /\ screenReq = "none"
  /\ nToggles < MaxToggles
  /\ nToggles' = nToggles + 1
  /\ IF hasScreenAccess
     THEN /\ tracks' = IF streamRef # 0 THEN [tracks EXCEPT ![streamRef] = "ended"]
                       ELSE tracks
          /\ streamRef' = 0
          /\ hasScreenAccess' = FALSE
          /\ \E t \in Ticks :
               /\ ReadClock(t)
               /\ messages' = addMessage(messages, "system", <<"Screen view disabled">>, t)
          /\ UNCHANGED screenReq
     ELSE /\ screenReq' = IF HasScreenMessage(messages) THEN "had" ELSE "fresh"
          /\ UNCHANGED <<tracks, streamRef, hasScreenAccess, messages>> /\ NoRead
  /\ UNCHANGED <<envVars, hookVars, pc, loc, isThinking, loadingStage, pipVars,
                 nq, nClears, nOpens>>

\* requestScreenAccess settles (FloatingWindow.tsx lines 328-389, ChatPage lines 586-605)
ScreenGrant ==
  /\ NoMicrotask
  /\ screenReq # "none"
  /\ screenReq' = "none"
  /\ \E success \in BOOLEAN :
       /\ hasScreenAccess' = success
       /\ IF success
          THEN /\ tracks' = Append(tracks, "live")
               /\ streamRef' = Len(tracks) + 1
               /\ IF screenReq = "had"
                  THEN UNCHANGED <<messages>> /\ NoRead
                  ELSE \E t \in Ticks :
                         /\ ReadClock(t)
                         /\ messages' = addMessage(messages, "system",
                                                   <<"Screen view enabled">>, t)
          ELSE /\ UNCHANGED <<tracks, streamRef>>
               /\ \E t \in Ticks :
                    /\ ReadClock(t)
                    /\ messages' = addMessage(messages, "error",
                                              <<"Screen access denied">>, t)
  /\ UNCHANGED <<envVars, hookVars, pc, loc, isThinking, loadingStage, pipVars, countVars>>

\* Math.max and Math.min on two integers
MathMax(a, b) == IF a >= b THEN a ELSE b
MathMin(a, b) == IF a <= b THEN a ELSE b

MinWidth  == 300
MaxWidth  == 600
MinHeight == 400
MaxHeight == 800

\* Math.min(Math.max(v, lo), hi) without the upper limit
ConstrainNoUpper(v, lo, hi) == MathMax(v, lo)

\* useReactPIP.ts lines 26-27 and 117-118: Math.min(Math.max(v, lo), hi)
Constrain(v, lo, hi) == MathMin(MathMax(v, lo), hi)

\* openPIPWindow(component, {width, height}) up to the await of requestWindow
\* (or to window.open): the PIPApp element is built from this render's values.
\* The test of line 17 reads the isOpen of the render, which setIsOpen(true)
\* changes only when an open has settled: a call made while another is
\* awaiting the host passes it. pip.calls counts the calls awaiting the host,
\* pip.roots the React roots rendered (lines 84-87, 196-199) and not unmounted;
\* of the PIPApp of a second root only its existence is kept.
openPIPWindow(width, height) ==
  /\ pip.phase # "open"
  /\ pc[PipProc] = "idle"
  /\ pip' = IF pip.phase = "opening"
            THEN [pip EXCEPT !.calls = @ + 1]
            ELSE [phase |-> "opening", isFloating |-> FALSE,
                  sharedMessages |-> messages, sharedIsThinking |-> isThinking,
                  sharedLoadingStage |-> loadingStage, sharedScreenStream |-> streamRef,
                  hasMainScreenAccess |-> hasScreenAccess, screenStreamRef |-> 0,
                  windowGone |-> FALSE,
                  reqWidth |-> width, reqHeight |-> height,
                  width |-> Constrain(width, MinWidth, MaxWidth),
                  height |-> Constrain(height, MinHeight, MaxHeight),
                  calls |-> 1, roots |-> pip.roots]

SystemPipWidth  == 400
SystemPipHeight == 600

\* ChatPage.toggleSystemPIP, open branch (lines 613-640), from the button
PipToggleOpen ==
  /\ NoMicrotask
  /\ nOpens < MaxOpens
  /\ nOpens' = nOpens + 1
  /\ openPIPWindow(SystemPipWidth, SystemPipHeight)
  /\ UNCHANGED <<envVars, hookVars, pc, loc, storeVars, screenVars, localMessages,
                 localIsThinking, localLoadingStage, nq, nToggles, nClears>> /\ NoRead

\* openPIPWindow settles (useReactPIP.ts lines 29-103 and 135-222), PIPApp
\* mounts (part_004 lines 59-72 and 134-147), toggleSystemPIP lines 642-649
PipOpenFinish ==
  /\ NoMicrotask
  /\ pip.phase = "opening"
  /\ \E ok \in BOOLEAN :
       IF ok
       THEN /\ pip' = [pip EXCEPT !.phase = "open", !.isFloating = TRUE,
                         !.calls = @ - 1, !.roots = @ + 1,
                         !.screenStreamRef =
                            IF pip.sharedScreenStream # 0 /\ pip.hasMainScreenAccess
                            THEN pip.sharedScreenStream ELSE 0]
            /\ localMessages' = pip.sharedMessages
            /\ localIsThinking' = pip.sharedIsThinking
            /\ localLoadingStage' = pip.sharedLoadingStage
            /\ sessionRef' = [sessionRef EXCEPT !["pip"] = Null]
            /\ isCreatingRef' = [isCreatingRef EXCEPT !["pip"] = FALSE]
            /\ UNCHANGED <<messages>> /\ NoRead
       ELSE /\ pip' = IF pip.calls > 1 THEN [pip EXCEPT !.calls = @ - 1]
                       ELSE [PipClosed EXCEPT !.roots = pip.roots]
            /\ \E t \in Ticks :
                 /\ ReadClock(t)
                 /\ messages' = addMessage(messages, "error",
                                           <<"Failed to open floating window">>, t)
            /\ UNCHANGED <<localMessages, localIsThinking, localLoadingStage,
                           sessionRef, isCreatingRef>>
  /\ UNCHANGED <<envVars, sessions, call, pc, loc, isThinking, loadingStage,
                 screenVars, countVars>>

\* ChatPage.toggleSystemPIP, close branch (lines 610-612): closePIPWindow
\* (useReactPIP.ts lines 225-245) unmounts PIPApp, whose effect cleanup runs
\* (part_004 lines 149-160)
closeSystemPIP ==
  /\ tracks' = IF pip.screenStreamRef # 0
               THEN [tracks EXCEPT ![pip.screenStreamRef] = "ended"] ELSE tracks
  /\ destroySession("pip")
  /\ pip' = [PipClosed EXCEPT !.calls = pip.calls, !.roots = pip.roots - 1]
  /\ localMessages' = <<>>
  /\ localIsThinking' = FALSE
  /\ localLoadingStage' = ""

\* a second click on the button while the open of the first is awaiting the
\* host: ChatPage still renders the button (pipIsOpen is false, line 653) and
\* toggleSystemPIP takes the open branch again
PipToggleOpenAgain ==
  /\ NoMicrotask
  /\ pip.phase = "opening"
  /\ nOpens < MaxCalls
  /\ nOpens' = nOpens + 1
  /\ openPIPWindow(SystemPipWidth, SystemPipHeight)
  /\ UNCHANGED <<envVars, hookVars, pc, loc, storeVars, screenVars, localMessages,
                 localIsThinking, localLoadingStage, nq, nToggles, nClears>> /\ NoRead

\* the open of a second call settles after the first one has (useReactPIP.ts
\* lines 84-103 and 196-222): another root is rendered, windowRef and rootRef
\* are overwritten; toggleSystemPIP lines 642-649
PipOpenFinishLate ==
  /\ NoMicrotask
  /\ pip.phase = "open" /\ pip.calls > 0
  /\ \E ok \in BOOLEAN :
       IF ok
       THEN /\ pip' = [pip EXCEPT !.calls = @ - 1, !.roots = @ + 1, !.windowGone = FALSE]
            /\ UNCHANGED <<messages>> /\ NoRead
       ELSE /\ pip' = [pip EXCEPT !.calls = @ - 1]
            /\ \E t \in Ticks :
                 /\ ReadClock(t)
                 /\ messages' = addMessage(messages, "error",
                                           <<"Failed to open floating window">>, t)
  /\ UNCHANGED <<envVars, hookVars, pc, loc, isThinking, loadingStage, screenVars,
                 localMessages, localIsThinking, localLoadingStage, countVars>>

\* the close branch from the button
PipToggleClose ==
  /\ NoMicrotask
  /\ pip.phase = "open"
  /\ closeSystemPIP
  /\ UNCHANGED <<envVars, isCreatingRef, call, pc, loc, storeVars, hasScreenAccess, streamRef, screenReq, countVars>> /\ NoRead

\* the user ends the capture with the browser's own "stop sharing" control:
\* the track's readyState becomes "ended"; no handler is registered for it
HostTrackEnded ==
  /\ NoMicrotask
  /\ \E i \in DOMAIN tracks :
       /\ tracks[i] = "live"
       /\ tracks' = [tracks EXCEPT ![i] = "ended"]
  /\ UNCHANGED <<envVars, hookVars, pc, loc, storeVars, hasScreenAccess, streamRef,
                 screenReq, pipVars, countVars>> /\ NoRead

\* the user closes the floating window itself: the pagehide listener
\* (useReactPIP.ts lines 99-101) or the closed-poll of the popup (lines
\* 208-213) calls the closePIPWindow of the render in which openPIPWindow was
\* made, whose isOpen is false, so it returns at line 226
PipHostClose ==
  /\ NoMicrotask
  /\ pip.phase = "open" /\ ~pip.windowGone
  /\ pip' = [pip EXCEPT !.windowGone = TRUE]
  /\ UNCHANGED <<envVars, hookVars, pc, loc, storeVars, screenVars, localMessages,
                 localIsThinking, localLoadingStage, countVars>> /\ NoRead

\* --------------------------------------------------------- the application
\* promises of the host that settle for a handler
HostStep(p) ==
  \/ HostAvailability(p)
  \/ HostCreate(p)
  \/ HostAppend(p)
  \/ HostChunk(p)
  \/ HostStreamEnd(p)
  \/ HostStreamFail(p)

\* continuations of ChatPage.handleUserQuery
MainStep(p) ==
  \/ MainCapture(p)
  \/ MainTry(p)
  \/ MainMMGot(p)
  \/ MainTxtGot(p)
  \/ MainPrompt(p)
  \/ MainFbRec(p)
  \/ Finish(p)

\* continuations of PIPApp.handleUserQuery and the host events only it awaits
PipStep(p) ==
  \/ PipCapture(p)
  \/ HostFrame(p)
  \/ PipHSR(p)
  \/ PipAvail(p)
  \/ PipMMGot(p)
  \/ PipPrompt(p)
  \/ PipFbRec(p)
  \/ HostOcr(p)
  \/ PipFbPrompt(p)
  \/ Finish(p)

\* queries of the main window, a second one submitted while the first is in
\* its fallback, and the clear button
NextMain ==
  \/ \E p \in MainProcs : MainSubmit(p)
  \/ \E p \in MainProcs : MainStep(p)
  \/ \E p \in MainProcs : HostStep(p)
  \/ \E p \in MainProcs : WaiterPoll(p)
  \/ \E p \in MainProcs : MainTxtRec(p)
  \/ MainClear

SpecMain == Init /\ [][NextMain]_vars

\* queries of the main window one after the other, and the screen button
NextScreen ==
  \/ MainSubmit(1)
  \/ MainStep(1)
  \/ HostStep(1)
  \/ ScreenToggle
  \/ ScreenGrant

SpecScreen == Init /\ [][NextScreen]_vars

\* the floating window and its queries
NextFloat ==
  \/ PipToggleOpen
  \/ PipOpenFinish
  \/ PipToggleClose
  \/ PipHostClose
  \/ HostTrackEnded
  \/ PipSubmit(PipProc)
  \/ PipStep(PipProc)
  \/ HostStep(PipProc)

SpecFloat == Init /\ [][NextFloat]_vars

\* a query of the main window with the floating window opened over it
NextShadow ==
  \/ MainSubmit(1)
  \/ MainStep(1)
  \/ HostStep(1)
  \/ PipToggleOpen
  \/ PipOpenFinish
  \/ PipToggleClose
  \/ PipClear

SpecShadow == Init /\ [][NextShadow]_vars

Next == NextMain \/ NextScreen \/ NextFloat \/ NextShadow

Spec == Init /\ [][Next]_vars

\* ------------------------------------- useAISession driven by free callers
Configs == {Config(TRUE, "visual", FALSE), Config(FALSE, "textonly", FALSE)}

CallerCall(p) ==
  /\ NoMicrotask
  /\ call[p].st = "none"
  /\ Len(sessions) < MaxAttempts
  /\ \E cfg \in Configs :
       \/ getOrCreateSession(p, "main", cfg)
       \/ recreateSession(p, "main", cfg)
  /\ UNCHANGED <<envVars, pc, loc, storeVars, screenVars, pipVars, countVars>> /\ NoRead

CallerReturn(p) ==
  /\ call[p].st = "ret"
  /\ call' = [call EXCEPT ![p] = NoCall]
  /\ UNCHANGED <<sessionRef, isCreatingRef, sessions>>
  /\ UNCHANGED <<envVars, pc, loc, storeVars, screenVars, pipVars, countVars>> /\ NoRead

CallerDestroy ==
  /\ NoMicrotask
  /\ sessionRef["main"] # Null
  /\ destroySession("main")
  /\ UNCHANGED <<isCreatingRef, call>>
  /\ UNCHANGED <<envVars, pc, loc, storeVars, screenVars, pipVars, countVars>> /\ NoRead

InitSession ==
  /\ hostDefined \in BOOLEAN
  /\ aiReady = hostDefined
  /\ InitHook
  /\ focus = FocusInit(FALSE)
  /\ InitScreenOff

NextSession ==
  \/ \E p \in MainProcs : CallerCall(p)
  \/ \E p \in MainProcs : CallerReturn(p)
  \/ CallerDestroy
  \/ \E p \in MainProcs : HostAvailability(p)
  \/ \E p \in MainProcs : HostCreate(p)
  \/ \E p \in MainProcs : WaiterPoll(p)

SpecSession == InitSession /\ [][NextSession]_vars

\* --------------------------------------- useWindowFocus wired in ChatPage
\* what ChatPage renders from; every change of it renders ChatPage again, and
\* every render runs the effect of useWindowFocus again, because the inline
\* onWindowBlur / onWindowFocus of ChatPage lines 329-340 are among its
\* dependencies (useWindowFocus.ts line 135)
Rendered == <<messages, isThinking, loadingStage, hasScreenAccess, pip.phase, pip.isFloating>>

\* the debounce timer is pending: set, and no render since has run the
\* cleanup that clears it (useWindowFocus.ts lines 126-134)
DebounceLive == focus.debounceRef # 0 /\ focus.rendered = Rendered
CloseLive == focus.closeTimer # 0

FocusFrame == UNCHANGED <<hostDefined, aiReady, chatMessages, atClear, hookVars, pc, loc, storeVars,
                          screenVars, pipVars, countVars>> /\ NoRead

\* time passes; a timer that is due fires first; an openPIPWindow in flight
\* settles first
Tick ==
  /\ NoMicrotask
  /\ focus.time < MaxTime
  /\ pip.phase # "opening"
  /\ ~(DebounceLive /\ focus.debounceRef <= focus.time)
  /\ ~(CloseLive /\ focus.closeTimer <= focus.time)
  /\ focus' = [focus EXCEPT !.time = @ + CloseDelayMs]
  /\ FocusFrame

\* the user leaves the main window: handleWindowBlur (lines 26-78) up to setTimeout
WindowBlur ==
  /\ NoMicrotask
  /\ focus.hasFocus
  /\ pip.phase # "opening"
  /\ focus' =
       IF ~focus.autoFloat \/ ~hasScreenAccess \/ pip.phase = "open"
       THEN [focus EXCEPT !.hasFocus = FALSE]
       ELSE [focus EXCEPT !.hasFocus = FALSE,
                          !.isBlurredRef = TRUE,
                          !.debounceRef = focus.time + DebounceMs,
                          !.rendered = Rendered,
                          !.blurAt = focus.time,
                          !.eligible = (focus.time + DebounceMs - focus.lastToggleRef
                                          > MinToggleGapMs),
                          !.opened = FALSE]
  /\ FocusFrame

\* the user comes back to the main window: handleWindowFocus (lines 80-106)
WindowFocus ==
  /\ NoMicrotask
  /\ ~focus.hasFocus
  /\ pip.phase # "opening"
  /\ focus' =
       IF ~focus.autoFloat
       THEN [focus EXCEPT !.hasFocus = TRUE]
       ELSE IF pip.phase = "open" /\ focus.time - focus.lastToggleRef > MinToggleGapMs
       THEN [focus EXCEPT !.hasFocus = TRUE, !.isBlurredRef = FALSE, !.debounceRef = 0,
                          !.blurAt = 0, !.focusAt = focus.time,
                          !.lastToggleRef = focus.time,
                          !.closeTimer = focus.time + CloseDelayMs]
       ELSE [focus EXCEPT !.hasFocus = TRUE, !.isBlurredRef = FALSE, !.debounceRef = 0,
                          !.blurAt = 0, !.focusAt = focus.time]
  /\ FocusFrame

\* the debounce timer fires (lines 55-77); onWindowBlur is ChatPage lines 329-334
DebounceFire ==
  /\ NoMicrotask
  /\ DebounceLive /\ focus.debounceRef <= focus.time
  /\ IF /\ focus.isBlurredRef /\ hasScreenAccess /\ pip.phase # "open" /\ focus.autoFloat
        /\ focus.time - focus.lastToggleRef > MinToggleGapMs
     THEN /\ focus' = [focus EXCEPT !.debounceRef = 0, !.lastToggleRef = focus.time,
                                    !.opened = TRUE, !.autoAt = focus.time]
          /\ openPIPWindow(SystemPipWidth, SystemPipHeight)
     ELSE /\ focus' = [focus EXCEPT !.debounceRef = 0]
          /\ UNCHANGED pip
  /\ UNCHANGED <<hostDefined, aiReady, chatMessages, atClear, hookVars, pc, loc, storeVars, screenVars,
                 localMessages, localIsThinking, localLoadingStage, countVars>> /\ NoRead

\* the timer of handleWindowFocus fires (lines 99-103); its pipIsOpen and
\* onWindowFocus are those of the render in which the focus came back, and
\* that toggleSystemPIP takes the close branch
CloseDelayFire ==
  /\ NoMicrotask
  /\ CloseLive /\ focus.closeTimer <= focus.time
  /\ focus' = [focus EXCEPT !.closeTimer = 0]
  /\ IF ~focus.isBlurredRef /\ focus.autoFloat /\ pip.phase = "open"
     THEN closeSystemPIP
     ELSE UNCHANGED <<tracks, sessionRef, sessions, pipVars>>
  /\ UNCHANGED <<hostDefined, aiReady, chatMessages, atClear, isCreatingRef, call, pc, loc, storeVars,
                 hasScreenAccess, streamRef, screenReq, countVars>> /\ NoRead

\* a query typed into the main window while it has the focus
FocusedSubmit == focus.hasFocus /\ nq = 0 /\ MainSubmit(1)

InitFocus ==
  /\ hostDefined = TRUE
  /\ aiReady = TRUE
  /\ InitHook
  /\ InitScreenOn
  /\ focus = FocusInit(TRUE)

NextFocus ==
  \/ Tick
  \/ WindowBlur
  \/ WindowFocus
  \/ DebounceFire
  \/ CloseDelayFire
  \/ PipOpenFinish

SpecFocus == InitFocus /\ [][NextFocus]_vars

\* the same with a query of the main window under way, over a time too short
\* for an automatic close
TickEarly == focus.time < Epoch + MaxQueryTicks * CloseDelayMs /\ Tick

NextFocusQuery ==
  \/ TickEarly
  \/ WindowBlur
  \/ WindowFocus
  \/ DebounceFire
  \/ PipOpenFinish
  \/ FocusedSubmit
  \/ MainStep(1)
  \/ HostStep(1)

SpecFocusQuery == InitFocus /\ [][NextFocusQuery]_vars

\* ---------------------------------- useReactPIP driven by a free caller
Sizes == {-1, 0, 299, 300, 301, 399, 400, 401, 599, 600, 601, 799, 800, 801, 5000}

\* a caller of openPIPWindow with any width and height
OpenCall ==
  /\ NoMicrotask
  /\ nOpens < MaxOpens
  /\ nOpens' = nOpens + 1
  /\ \E width, height \in Sizes : openPIPWindow(width, height)
  /\ UNCHANGED <<envVars, hookVars, pc, loc, storeVars, screenVars, localMessages,
                 localIsThinking, localLoadingStage, nq, nToggles, nClears>> /\ NoRead

NextSize == OpenCall \/ PipOpenFinish \/ PipToggleClose \/ PipHostClose

SpecSize == Init /\ [][NextSize]_vars

\* ------------------------------------------- ChatProvider (ChatContext.tsx)
ClearedText == "Conversation cleared. Start fresh!"
MessageTypes == {"user", "assistant", "system", "error"}

\* ChatProvider.clearConversation: setMessages([initial]); setConversationContext("");
\* addMessage("system", "Conversation cleared. Start fresh!")
chatClearConversation(id) ==
  addMessage(<<Msg(InitialId, "system", <<ReadyText>>)>>, "system", <<ClearedText>>, id)

\* ChatProvider.addMessage called by a consumer of useChatContext
ChatAddMessage ==
  /\ NoMicrotask
  /\ Len(chatMessages) < MaxChatLen
  /\ \E type \in MessageTypes : \E t \in Ticks :
       /\ ReadClock(t)
       /\ chatMessages' = addMessage(chatMessages, type, <<QueryText>>, t)
  /\ UNCHANGED <<hostDefined, aiReady, atClear, focus, hookVars, pc, loc, storeVars, screenVars,
                 pipVars, countVars>>

\* ChatProvider.clearConversation called by a consumer of useChatContext
ChatClear ==
  /\ NoMicrotask
  /\ nClears < MaxClears
  /\ \E t \in Ticks :
       /\ ReadClock(t)
       /\ chatMessages' = chatClearConversation(t)
  /\ nClears' = nClears + 1
  /\ UNCHANGED <<hostDefined, aiReady, atClear, focus, hookVars, pc, loc, storeVars, screenVars,
                 pipVars, nq, nToggles, nOpens>>

NextChat == ChatAddMessage \/ ChatClear

SpecChat == Init /\ [][NextChat]_vars

\* ------------------------------------------------------------------ claims
Live(w) == {i \in 1..Len(sessions) : sessions[i].win = w /\ sessions[i].status = "live"}

\* C2: at most one session returned by create() is live per useAISession
\* instance, a live session is the one held in sessionRef, and the slot is
\* never overwritten while it holds a session that was not destroyed.
C2_OneLiveSession ==
  /\ Cardinality(Live("main")) <= 1
  /\ \A i \in Live("main") : sessionRef["main"] = i
  /\ sessionRef["main"] # Null => sessionRef["main"] \in Live("main")

C2_Witness ==
  /\ Len(sessions) >= 2
  /\ sessions[1].status = "destroyed"
  /\ sessionRef["main"] = 2
  /\ \E p \in Procs : call[p].st = "wait"

\* C1: a caller that found a creation in flight resolves to the handle that
\* creation produced.
C1_WaiterGetsInFlightSession ==
  \A p \in Procs :
    (call[p].st = "ret" /\ call[p].waited /\ call[p].sid # 0
       /\ sessions[call[p].sid].status \in {"live", "destroyed"})
    => call[p].res = call[p].sid

C1_Witness ==
  \E p \in Procs :
    /\ call[p].st = "ret" /\ call[p].waited /\ call[p].sid # 0
    /\ call[p].res = call[p].sid

\* the assistant messages of the store that carry the id a handler streams into
Streamed(p) ==
  {i \in 1..Len(messages) :
     messages[i].id = loc[p].messageId /\ messages[i].type = "assistant"}

\* C3: when a stream has ended, the assistant message of the query holds
\* exactly the chunks of the stream that completed, in arrival order.
C3_ContentIsCompletedStream ==
  \A p \in Procs :
    (pc[p] = "fin" /\ loc[p].end = "ok")
    => \A i \in Streamed(p) : messages[i].content = loc[p].emitted

C3_Witness ==
  \E p \in Procs :
    /\ pc[p] = "fin" /\ loc[p].end = "ok" /\ loc[p].nPrompt = 2
    /\ loc[p].emitted # <<>>
    /\ \E i \in Streamed(p) : messages[i].content = loc[p].emitted

\* C4: a query taken while hasScreenAccess is false is streamed by a session
\* whose system prompt is the text-only one.
C4_TextOnlyPromptWhenScreenOff ==
  \A p \in Procs :
    (pc[p] \in StreamPcs /\ ~loc[p].hsa)
    => sessions[loc[p].session].prompt = "textonly"

C4_Witness ==
  \E p \in Procs :
    /\ pc[p] \in StreamPcs /\ ~loc[p].hsa
    /\ sessions[loc[p].session].prompt = "textonly"
    /\ nToggles > 0

\* C5: once a step of the multimodal path has thrown, the query is streamed by
\* a session created after the failure without image input, and the session
\* held at the failure is destroyed.
C5_FallbackSessionIsRecreated ==
  \A p \in Procs :
    (pc[p] \in StreamPcs /\ loc[p].mmFailed)
    => /\ ~sessions[loc[p].session].image
       /\ loc[p].session > loc[p].lenAtFail
       /\ loc[p].heldAtFail # Null => sessions[loc[p].heldAtFail].status = "destroyed"

C5_Witness ==
  \E p \in Procs :
    /\ pc[p] \in StreamPcs /\ loc[p].mmFailed /\ loc[p].heldAtFail # Null
    /\ ~sessions[loc[p].session].image
    /\ loc[p].session > loc[p].lenAtFail
    /\ sessions[loc[p].heldAtFail].status = "destroyed"

\* C6: a query calls recreateSession at most once and promptStreaming at most
\* twice, and when both attempts failed it has appended exactly one error
\* message and, no other query being in flight, thinking is false and the
\* loading stage is empty.
C6_OneFallbackAttempt ==
  \A p \in Procs :
    /\ loc[p].nRecreate <= 1
    /\ loc[p].nPrompt <= 2
    /\ (pc[p] = "fin" /\ loc[p].end = "bothFailed")
       => /\ loc[p].nErr = 1
          /\ (\A q \in Procs \ {p} : pc[q] = "idle") => (~isThinking /\ loadingStage = "")

C6_Witness ==
  \E p \in Procs :
    /\ pc[p] = "fin" /\ loc[p].end = "bothFailed"
    /\ loc[p].nRecreate = 1 /\ loc[p].nPrompt = 2 /\ loc[p].nErr = 1
    /\ ~isThinking /\ loadingStage = ""

\* C7: a query in which create() threw appends an error message only after it
\* has called recreateSession.
C7_FallbackBeforeError ==
  \A p \in Procs :
    (loc[p].createThrew /\ loc[p].nErr > 0) => loc[p].nRecreate >= 1

C7_Witness ==
  \E p \in Procs :
    loc[p].createThrew /\ loc[p].nErr > 0 /\ loc[p].nRecreate >= 1

\* a message list as the user sees it: kind and content, in order
View(msgs) == [i \in 1..Len(msgs) |-> <<msgs[i].type, msgs[i].content>>]

InSync ==
  /\ View(localMessages) = View(messages)
  /\ localIsThinking = isThinking
  /\ localLoadingStage = loadingStage

\* C8: after every operation of the floating window that leaves it open (its
\* mount, a clear, a step of one of its queries) the shadow copy and the store
\* show the same messages, thinking flag and loading stage.
C8_ShadowEqualsStore ==
  [][((PipOpenFinish \/ PipClear) /\ LocalOpen') => InSync']_vars

C8_Witness == LocalOpen /\ InSync /\ Len(messages) >= 3

\* C9: while the floating window is open, a difference between the shadow copy
\* and the store does not last forever.
C9_ShadowCatchesUp == (LocalOpen /\ ~InSync) ~> (~LocalOpen \/ InSync)

\* the host settles its promises and queued continuations run; the user is
\* not obliged to press anything
SpecShadowFair ==
  /\ SpecShadow
  /\ WF_vars(MainStep(1) \/ HostStep(1))
  /\ WF_vars(PipOpenFinish)

\* C10: closing the floating window stops no track of the capture stream.
C10_CloseKeepsMainTracks ==
  [][PipToggleClose => \A i \in DOMAIN tracks : tracks[i] = "live" => tracks'[i] = "live"]_vars

C10_Witness == pip.phase = "closed" /\ nOpens > 0 /\ streamRef # 0 /\ hasScreenAccess

\* C11: every close of the floating window, by the application or by the host,
\* leaves the surface unmounted, isOpen false and isFloating false.
C11_CloseClearsFlags ==
  [][(PipToggleClose \/ PipHostClose) => (pip'.phase = "closed" /\ ~pip'.isFloating)]_vars

C11_Witness == pip.phase = "closed" /\ ~pip.isFloating /\ nOpens > 0 /\ localMessages = <<>>

\* a call of operation op by caller p starts in this step
Calls(p, op) == call[p].st = "none" /\ call'[p].st # "none" /\ call'[p].op = op
\* the call of caller p settles in this step
Settles(p) == call[p].st # "ret" /\ call'[p].st = "ret"
\* a creation of window w is between its first await and its settling
Creating(w) == \E p \in Procs : call[p].w = w /\ call[p].st \in {"avail", "create"}

\* C16: getOrCreateSession returns the session of the slot, without starting a
\* creation, whenever the slot holds one; it starts a creation only when the
\* slot is empty; hence a handle that was returned and not destroyed since is
\* what the next call returns.
C16_GetReturnsHeldSession ==
  [][\A p \in MainProcs : Calls(p, "get") =>
       /\ sessionRef["main"] # Null =>
            /\ call'[p].st = "ret" /\ call'[p].res = sessionRef["main"]
            /\ sessions' = sessions /\ sessionRef' = sessionRef
       /\ sessions' # sessions => sessionRef["main"] = Null
       /\ \A i \in Live("main") : call'[p].st = "ret" /\ call'[p].res = i]_vars

C16_Witness ==
  \E p \in MainProcs :
    /\ call[p].st = "ret" /\ call[p].op = "get" /\ ~call[p].waited
    /\ call[p].sid = 0 /\ call[p].res = 1 /\ sessionRef["main"] = 1
    /\ Len(sessions) = 1

\* C17: recreateSession destroys the session the slot holds and resolves, when
\* it does not throw, to a live session created with the configuration given
\* to this call, also when another creation is in flight.
C17_RecreateGivesNewSession ==
  [][\A p \in MainProcs :
       /\ (Calls(p, "recreate") /\ sessionRef["main"] # Null)
            => sessions'[sessionRef["main"]].status = "destroyed"
       /\ (Settles(p) /\ call'[p].op = "recreate" /\ call'[p].res # Throw)
            => /\ call'[p].res # Null
               /\ sessions'[call'[p].res].status = "live"
               /\ sessions'[call'[p].res].image = call'[p].cfg.image
               /\ sessions'[call'[p].res].prompt = call'[p].cfg.prompt]_vars

C17_Witness ==
  \E p \in MainProcs :
    /\ call[p].st = "ret" /\ call[p].op = "recreate" /\ ~call[p].waited
    /\ call[p].res = 2 /\ sessions[1].status = "destroyed"
    /\ sessions[2].status = "live" /\ sessions[2].prompt = call[p].cfg.prompt

\* C18: a call that needs a creation throws when window.LanguageModel is
\* undefined and when availability() is not "available"; a failed creation
\* leaves the slot empty and the flag released, the flag is set only while a
\* creation is in flight, and a later call starts a creation again.
C18_FailedCreationReleases ==
  [][/\ \A p \in MainProcs :
          /\ (call[p].st = "none" /\ call'[p].st # "none" /\ ~hostDefined)
               => call'[p].st = "ret" /\ call'[p].res = Throw
          /\ (call[p].st = "avail" /\ call'[p].st = "ret") => call'[p].res = Throw
          /\ (Settles(p) /\ call'[p].res = Throw)
               => sessionRef'["main"] = Null /\ ~isCreatingRef'["main"]
          /\ (Calls(p, "get") /\ sessionRef["main"] = Null /\ ~isCreatingRef["main"]
                /\ hostDefined)
               => Len(sessions') = Len(sessions) + 1 /\ call'[p].st = "avail"
     /\ isCreatingRef'["main"] <=> Creating("main")']_vars

C18_Witness ==
  /\ Len(sessions) >= 2 /\ sessions[1].status = "failed"
  /\ sessions[2].status = "creating" /\ sessionRef["main"] = Null
  /\ \E p \in MainProcs : call[p].st = "avail" /\ call[p].op = "get" /\ call[p].sid = 2

\* the message list a clear must leave, and the conversation context built from it
Cleared(msgs) ==
  /\ Len(msgs) = 1 /\ msgs[1].type = "system"
  /\ buildCleanConversationContext(msgs) = <<>>

\* C14: whatever the store held, clearConversation leaves exactly one message,
\* of kind system, and an empty conversation context; so does the copy of the
\* floating window when the clear is made there.
C14_ClearLeavesOneSystemMessage ==
  [][/\ MainClear => Cleared(messages')
     /\ PipClear => Cleared(messages') /\ Cleared(localMessages')
     /\ ChatClear => Cleared(chatMessages')]_vars

\* C20: when the handler of a query returns, on whatever path, the thinking
\* flag is false and the loading stage is empty (so the input accepts a
\* further query), in the store and in the copy of an open floating window.
C20_QueryEndsIdle ==
  \A p \in Procs :
    pc[p] = "fin" =>
      /\ ~isThinking /\ loadingStage = ""
      /\ LocalOpen => (~localIsThinking /\ localLoadingStage = "")

C20_Witness ==
  /\ pc[PipProc] = "fin" /\ loc[PipProc].end = "bothFailed"
  /\ LocalOpen /\ ~localIsThinking /\ localLoadingStage = "" /\ ~isThinking

\* the stream PIPApp holds has no live track
StreamEnded == pip.screenStreamRef = 0 \/ tracks[pip.screenStreamRef] = "ended"

\* C15: captureScreen of the floating window, called when the lent stream has
\* ended or is missing, returns without a frame: it does not call
\* captureFrame (so it cannot reject or give an old frame) and requests no
\* new capture.
C15_EndedStreamGivesNoFrame ==
  [][\A p \in {PipProc} :
       (pc[p] = "p_capture" /\ pc'[p] # "p_capture" /\ StreamEnded) =>
          /\ pc'[p] = "p_hsr" /\ ~loc'[p].shot /\ loc'[p].end = "none"
          /\ tracks' = tracks /\ screenReq' = screenReq /\ streamRef' = streamRef]_vars

C15_Witness ==
  /\ pc[PipProc] = "p_hsr" /\ ~loc[PipProc].shot
  /\ pip.hasMainScreenAccess /\ pip.screenStreamRef # 0
  /\ tracks[pip.screenStreamRef] = "ended"
  /\ nq = 2

\* the size v brought into the band lo..hi
InBand(req, v, lo, hi) ==
  /\ req < lo => v = lo
  /\ req > hi => v = hi
  /\ (lo <= req /\ req <= hi) => v = req

\* C19: whatever width and height are asked of openPIPWindow, the window is
\* requested, and open, with the width brought into 300..600 and the height
\* into 400..800; a size outside the band is not a reason for the open to fail.
C19_SizeIsClamped ==
  pip.phase \in {"opening", "open"} =>
    /\ InBand(pip.reqWidth, pip.width, 300, 600)
    /\ InBand(pip.reqHeight, pip.height, 400, 800)

C19_Witness ==
  /\ pip.phase = "open" /\ pip.reqWidth = 5000 /\ pip.reqHeight = -1
  /\ pip.width = 600 /\ pip.height = 400

\* an automatic open, an automatic close
AutoOpens == focus'.autoAt # focus.autoAt
AutoCloses == CloseLive /\ focus'.closeTimer = 0 /\ pip.phase = "open" /\ pip'.phase = "closed"
\* the debounce of a blur that could lead to an open has run out with the
\* window still blurred and nothing opened
Overdue ==
  /\ focus.blurAt # 0 /\ focus.eligible /\ ~focus.hasFocus /\ ~focus.opened
  /\ focus.time >= focus.blurAt + DebounceMs

\* C12: with auto-float on, screen access active and no floating window, a
\* blur that lasts the debounce delay gives one automatic open when the delay
\* ends; an automatic open comes only from such a blur, not while the focus is
\* back and not within the minimum interval after the previous one.
C12_BlurOpensOnce ==
  [][/\ Overdue => focus'.time = focus.time
     /\ AutoOpens =>
          /\ ~focus.hasFocus /\ focus.blurAt # 0 /\ ~focus.opened
          /\ focus.time = focus.blurAt + DebounceMs
          /\ focus.autoAt # 0 => focus.time - focus.autoAt > MinToggleGapMs]_vars

C12_Witness ==
  /\ focus.opened /\ ~focus.hasFocus /\ pip.phase = "open"
  /\ focus.autoAt = focus.blurAt + DebounceMs

\* C13: with auto-float on and the floating window open, a regain of the
\* focus closes it once the focus has been held for the debounce delay, and
\* only when the minimum interval has passed since the last automatic toggle.
C13_FocusClosesAfterDebounce ==
  [][AutoCloses =>
       /\ focus.hasFocus
       /\ focus.time - focus.focusAt >= DebounceMs
       /\ focus.autoAt # 0 => focus.time - focus.autoAt > MinToggleGapMs]_vars

C13_Witness ==
  /\ pip.phase = "closed" /\ focus.autoAt # 0 /\ focus.focusAt > focus.autoAt
  /\ focus.closeTimer = 0 /\ focus.lastToggleRef = focus.focusAt /\ focus.hasFocus
  /\ focus.time > focus.focusAt

\* C21: no query is given up because the capture of a frame failed: a capture
\* that gives no frame, throws or rejects lets the query go on to the model
\* without a screenshot.
C21_CaptureFailureProceeds ==
  \A p \in Procs : loc[p].end # "aborted"

C21_Witness ==
  /\ loc[PipProc].nPrompt >= 1 /\ ~loc[PipProc].shot
  /\ pip.hasMainScreenAccess /\ pip.screenStreamRef # 0
  /\ tracks[pip.screenStreamRef] = "live"

\* C22: with auto-narration on, speech is given the text of a query's response
\* only when its stream has ended, and then the whole text; and it is given
\* the text whenever a stream has ended with a text that is not empty, in the
\* main window and in the floating window.
C22_SpeaksCompleteResponse ==
  \A p \in Procs :
    /\ loc[p].spoken # <<>> =>
         pc[p] = "fin" /\ loc[p].end = "ok" /\ loc[p].spoken = loc[p].response
    /\ (pc[p] = "fin" /\ loc[p].end = "ok" /\ Trim(loc[p].response) # <<>>) =>
         loc[p].spoken = loc[p].response

\* the chunks 1..n of the k-th stream of the query of process p
StreamPrefix(p, k, n) == [j \in 1..n |-> Chunk(p, k, j)]
\* the content is what one stream has delivered so far
OneStream(content) ==
  \E p \in Procs : \E k \in 1..MaxAttempts : content = StreamPrefix(p, k, Len(content))

\* C23: the content of every assistant message is the chunks one streamed
\* completion has delivered, in their order: no second stream (the fallback
\* of a failed stream, the stream of another query) has written into it.
C23_OneStreamPerMessage ==
  \A i \in DOMAIN messages :
    messages[i].type = "assistant" => OneStream(messages[i].content)

C23_Witness ==
  \E i \in DOMAIN messages :
    /\ messages[i].type = "assistant" /\ Len(messages[i].content) = MaxChunks
    /\ OneStream(messages[i].content)
    /\ loc[PipProc].end = "ok" /\ loc[PipProc].nPrompt = 2

\* C24: the ids of the messages in the store are pairwise distinct, so
\* updateMessage changes one message only and a user message keeps the text
\* the user typed.
C24_DistinctIds ==
  /\ \A i, j \in DOMAIN messages : i # j => messages[i].id # messages[j].id
  /\ \A i \in DOMAIN messages :
       messages[i].type = "user" => messages[i].content = <<QueryText>>

C24_Witness ==
  /\ \E i, j \in DOMAIN messages :
       /\ messages[i].type = "user" /\ messages[j].type = "assistant"
       /\ messages[j].id = messages[i].id + 1 /\ messages[j].content # <<>>
  /\ \A i, j \in DOMAIN messages : i # j => messages[i].id # messages[j].id

\* C25: once the conversation was cleared, from the main window or from the
\* floating one, no session whose creation was begun before the clear is
\* live: the held sessions were destroyed by the clear and a creation that
\* was in flight does not leave its session in a slot.
C25_ClearLeavesNoSession ==
  nClears >= 1 =>
    \A s \in 1..atClear :
      /\ sessions[s].status # "live"
      /\ \A w \in Windows : sessionRef[w] # s

C25_Witness ==
  /\ nClears >= 1 /\ atClear >= 1
  /\ \A s \in 1..atClear : sessions[s].status = "destroyed"
  /\ \E s \in DOMAIN sessions : s > atClear /\ sessions[s].status = "live"

\* useScreenCapture.hasAccess (FloatingWindow.tsx line 455): !!streamRef.current
hasAccess == streamRef # 0

\* the stream held by useScreenCapture has its track ended
StreamEndedMain == streamRef # 0 /\ tracks[streamRef] = "ended"

\* C26: in the main window an ended capture stream counts as no access:
\* hasAccess() is false and hasScreenAccess is not true while the track of the
\* held stream is ended, a query gets no frame from an ended stream, and a
\* query issues no permission request.
C26_EndedIsNoAccess ==
  [][/\ StreamEndedMain' => ~hasAccess' /\ ~hasScreenAccess'
     /\ \A p \in MainProcs :
          /\ (pc[p] = "m_capture" /\ pc'[p] = "m_try" /\ loc'[p].shot)
               => ~StreamEndedMain
          /\ pc'[p] # pc[p] => screenReq' = screenReq]_vars

C26_Witness ==
  /\ StreamEndedMain /\ hasScreenAccess
  /\ pc[1] = "m_try" /\ loc[1].shot

\* the call of process p has just begun a recreation: createSession appended
\* a new attempt for it
Recreates(p) ==
  /\ call'[p].op = "recreate" /\ call'[p] # call[p]
  /\ Len(sessions') = Len(sessions) + 1
  /\ call'[p].sid = Len(sessions')

\* C27: the history given to a recreated text-only session is
\* buildCleanConversationContext applied to the messages of the store as they
\* are when recreateSession is called; the messages the query itself has
\* appended since it was submitted may be left out.
C27_HistoryIsCurrent ==
  [][\A p \in Procs :
       Recreates(p) =>
         \/ sessions'[Len(sessions')].history = buildCleanConversationContext(messages)
         \/ sessions'[Len(sessions')].history =
              buildCleanConversationContext(loc[p].before)]_vars

C27_Witness ==
  /\ nq = 2
  /\ Len(SelectSeq(messages, IsConversation)) >= 3
  /\ \E s \in DOMAIN sessions :
       /\ sessions[s].win = "pip" /\ ~sessions[s].image
       /\ sessions[s].status = "live" /\ sessionRef["pip"] = s
       /\ sessions[s].history = <<>>
       /\ loc[PipProc].session = s /\ loc[PipProc].nRecreate = 1

\* the assistant messages of a list
Assistants(msgs) == SelectSeq(msgs, LAMBDA m : m.type = "assistant")

\* C28: a query appends at most one assistant message, so the store never
\* holds more assistant messages than queries were accepted; the response of
\* a fallback goes into the message the first attempt appended.
C28_OneAssistantMessage == Len(Assistants(messages)) <= nq

C28_Witness ==
  /\ nq = 1 /\ loc[1].nPrompt = 2 /\ loc[1].end = "ok"
  /\ Len(Assistants(messages)) = 2
  /\ messages[Len(messages)].content # <<>>

\* the isThinking that the ChatInterface of window w is given
ThinkingFlag(w) == IF w = "main" THEN isThinking ELSE localIsThinking

\* the queries of window w whose handler has not returned
Unfinished(w) == {p \in Procs : win(p) = w /\ pc[p] \notin {"idle", "fin"}}

\* C29: the thinking flag of a window is true while a stream of one of its
\* queries is being consumed, first attempt or fallback, and a window has at
\* most one query in flight.
C29_ThinkingWhileStreaming ==
  /\ \A p \in Procs : pc[p] \in StreamPcs => ThinkingFlag(win(p))
  /\ \A w \in Windows : Cardinality(Unfinished(w)) <= 1

C29_Witness ==
  /\ pc[1] \in StreamPcs /\ loc[1].nPrompt = 1 /\ isThinking
  /\ loc[1].response # <<>> /\ Unfinished("main") = {1}

\* ------------------------- the button pressed again while the window opens
\* the close branch, once every open has settled
PipToggleCloseSettled == pip.calls = 0 /\ PipToggleClose

NextOpen ==
  \/ PipToggleOpen
  \/ PipToggleOpenAgain
  \/ PipOpenFinish
  \/ PipOpenFinishLate
  \/ PipToggleCloseSettled
  \/ ScreenToggle
  \/ ScreenGrant

SpecOpen == Init /\ [][NextOpen]_vars

\* C30: at most one floating window is open or being opened at any time: a
\* call of openPIPWindow made while a window is open or while another call is
\* awaiting the host returns false, whoever makes it.
C30_OneFloatingWindow == pip.calls + pip.roots <= 1

C30_Witness == pip.phase = "open" /\ pip.roots = 2 /\ pip.calls = 0

====
